---- MODULE Spec2Model ----
(***************************************************************************)
(* The connection / relay / offline-mailbox core of chat-app-backend:      *)
(* src/utils/socketHandler.js lines 1-311 (the room-based handler that     *)
(* server.js registers), with the FriendService calls it makes and the     *)
(* session table of src/routes/auth.js that the handshake consults.        *)
(*                                                                         *)
(* Node runs one handler at a time; a handler gives up control only at an  *)
(* await.  Every action below is one such synchronous stretch of a         *)
(* handler, or the moment a storage call it started takes effect.          *)
(***************************************************************************)
EXTENDS Integers, Sequences, FiniteSets, TLC

\* ------------------------------------------------------------------ bounds
NumUsers == 3
\* sockets opened in a behaviour of the relay, and of the presence broadcaster
MaxConns == 3
MaxPresenceConns == 2
\* sockets opened in a behaviour that starts over a non-empty mailbox
MaxDrainConns == 2
\* send_message events in a behaviour of the relay
MaxSends == 1
\* send_message events and sockets in a behaviour that races two sends
MaxOrderSends == 2
MaxOrderConns == 2
\* tokens issued and sockets opened in a behaviour that logs in and out
MaxLogins == 2
MaxSessionConns == 2
\* typing, friend-request and status events, and sockets, in a behaviour of
\* the signal router
MaxSignals == 1
MaxSignalConns == 2
\* SpecLogout: sockets opened
MaxLogoutConns == 2
\* SpecFriends: sendFriendRequest calls, and rows of friend_requests
MaxFriendCalls == 2
MaxRequests == 2
\* offline_messages rows left in the table by an earlier run of the server
NumOldRows == 2

Users   == 1..NumUsers
Conns   == 1..MaxConns
SendIds == 1..MaxOrderSends
\* offline_messages ids: the row stored for send m has id m, older rows follow
RowIds  == 1..(MaxOrderSends + NumOldRows)
SignalIds == 1..MaxSignals
FriendCallIds == 1..MaxFriendCalls
RequestIds == 1..MaxRequests
\* session identifiers: one per user held at startup, then one per login
Sessions == 1..(NumUsers + MaxLogins)

\* a field the client left out of a payload (undefined in the handler)
NoValue == 0

\* the friendships table (part_003:31-41) at startup: one row per pair,
\* user1_id < user2_id.  Users 1-2 and 2-3 are friends, 1-3 are not.
SeedFriendships == {<<1, 2>>, <<2, 3>>}

\* the client-assigned identifier of the m-th send_message event
UuidOf(m) == 100 + m

VARIABLES
  userSessions,     \* middleware/auth userSessions: userId -> the active session identifiers
  issued,           \* per session identifier, the user whose token carries it (NoValue: not generated)
  lastRejected,     \* the credential of the latest handshake that authenticateSocket refused
  lastLogout,       \* the credential of the latest POST /api/auth/logout
  socketUser,       \* socket.userId of each socket that passed authenticateSocket (NoValue: not yet opened)
  socketSession,    \* socket.sessionId of each such socket
  connPc,           \* where handleConnection stands for each socket
  connected,        \* the sockets whose transport is open
  rooms,            \* io.sockets.adapter.rooms: per room user_<n>, the sockets joined to it
  offlineMessages,  \* per socket, what getOfflineMessages returned (threw: it raised instead)
  lastDrain,        \* the latest drain: its socket and the offline_messages ids it emitted, in order
  mailbox,          \* offline_messages table
  dbClock,          \* the database's NOW(), counted in inserts
  pendingDeletes,   \* deleteOfflineMessages calls issued and not yet executed: the socket whose
                    \* drain issued the call, and its ids
  staleDelete,      \* a delete has executed after some of its ids had already been removed
  sends,            \* one handleSendMessage invocation per send_message event
  signals,          \* one handler invocation per typing_start, typing_stop,
                    \* friend_request_sent or update_message_status event
  drainCount,       \* per offline_messages id, how many drains emitted it
  drainReached,     \* per offline_messages id, the sockets a drain emitted it to
  notifyPending,    \* notifyFriendsStatusChange calls awaiting getUserFriends (othersLive:
                    \* an offline call made while the user's room was still non-empty)
  statusUpdates,    \* friend_status_update events emitted so far (whileLive: the user's
                    \* room was non-empty at the emit)
  statusWrites,     \* updateUserOnlineStatus calls issued and not yet executed
  is_online,        \* users.is_online
  friendships,      \* friendships table: pairs <<user1_id, user2_id>>
  friend_requests,  \* friend_requests table
  friendCalls,      \* one FriendService.sendFriendRequest invocation per call
  lastCall          \* the latest FriendService call that has returned or thrown

vars == <<userSessions, issued, lastRejected, lastLogout, socketUser, socketSession,
          connPc, connected, rooms, offlineMessages, lastDrain, mailbox,
          dbClock, pendingDeletes, staleDelete, sends, signals, drainCount, drainReached, notifyPending,
          statusUpdates, statusWrites, is_online, friendships, friend_requests,
          friendCalls, lastCall>>

sessionVars  == <<userSessions, issued, lastRejected, lastLogout>>
connVars     == <<socketUser, socketSession, connPc, connected, rooms, offlineMessages,
                  lastDrain>>
mailVars     == <<mailbox, dbClock, pendingDeletes, staleDelete, drainCount, drainReached>>
presenceVars == <<notifyPending, statusUpdates, statusWrites, is_online>>
friendVars   == <<friendships, friend_requests, friendCalls, lastCall>>

\* ----------------------------------------------------------------- helpers

\* mutant of RoomOf: every socket joins the same room
RoomOf_Shared(userId) == 1

\* line 52: the room name user_<userId>, as the index of the room
RoomOf(userId) == userId

\* the sockets in the room user_<u>
Room(u) == rooms[RoomOf(u)]

\* getRoomSize(io, roomName)
getRoomSize(u) == Cardinality(Room(u))

\* mutant of areUsersFriends: a failed query counts as a friendship
areUsersFriends_FailsOpen(userId1, userId2, queryFails) ==
  queryFails \/ <<userId1, userId2>> \in friendships \/ <<userId2, userId1>> \in friendships

\* FriendService.areUsersFriends: one query matching the pair in either column
\* order; any error other than "not found" is caught and yields false.
\* (As written, line 235 builds the filter with a call and(...) of a name no
\* module defines, so in this file the query always takes the failing outcome;
\* both outcomes of the query are kept here.)
areUsersFriends(userId1, userId2, queryFails) ==
  IF queryFails THEN FALSE
  ELSE (<<userId1, userId2>> \in friendships \/ <<userId2, userId1>> \in friendships)

\* FriendService.getUserFriends: the other side of every row naming userId
getUserFriends(userId) ==
  {f \in Users : <<userId, f>> \in friendships \/ <<f, userId>> \in friendships}

\* the rows of a set, as a sequence in ascending timestamp order
RECURSIVE ByTimestamp(_)
ByTimestamp(rows) ==
  IF rows = {} THEN <<>>
  ELSE LET first == CHOOSE r \in rows : \A q \in rows : r.timestamp <= q.timestamp
       IN <<first>> \o ByTimestamp(rows \ {first})

\* getOfflineMessages(userId): the rows addressed to userId, oldest first
getOfflineMessages(userId) ==
  ByTimestamp({r \in mailbox : r.receiver_id = userId})

\* storeOfflineMessage: insert one row, stamped by the database
storeOfflineMessage(id, senderId, receiverId, messageUuid) ==
  mailbox \cup {[id |-> id, sender_id |-> senderId, receiver_id |-> receiverId,
                 message_uuid |-> messageUuid, timestamp |-> dbClock + 1]}

\* mutant of deleteFrom: a call with stale ids clears the table
deleteFrom_ClearsOnStale(table, ids) ==
  IF ids \subseteq {r.id : r \in table} THEN {r \in table : r.id \notin ids} ELSE {}

\* DELETE FROM offline_messages WHERE id IN ids, on a given table content
deleteFrom(table, ids) ==
  {r \in table : r.id \notin ids}

\* deleteOfflineMessages(ids): remove the rows whose id is listed, ignore the rest
deleteOfflineMessages(ids) == deleteFrom(mailbox, ids)

IdsOf(s) == {s[i].id : i \in 1..Len(s)}

\* an empty result of getOfflineMessages
NoRows == [threw |-> FALSE, rows |-> <<>>]

\* no credential: handshake.auth.token, or the Authorization header, is absent
NoToken == [userId |-> NoValue, sessionId |-> NoValue, signed |-> FALSE]

\* what a client can present: nothing, a token generateToken signed, or the
\* payload of such a token under a signature jwt.verify refuses
Credentials ==
  {NoToken} \cup {[userId |-> issued[s], sessionId |-> s, signed |-> b] :
                    s \in {t \in Sessions : issued[t] # NoValue}, b \in BOOLEAN}

\* jwt.verify(token, JWT_SECRET): generateToken sets no expiry, so a token
\* verifies exactly when its signature does
jwtVerify(token) == token.signed

\* mutant of authenticateSocket: the signature alone admits the socket
authenticateSocket_SignatureOnly(token) == jwtVerify(token)

\* authenticateSocket: the token is present, verifies, and its (userId,
\* sessionId) pair is in userSessions
authenticateSocket(token) ==
  /\ token # NoToken
  /\ jwtVerify(token)
  /\ token.sessionId \in userSessions[token.userId]

\* generateSessionId: an identifier no token carries yet
generateSessionId == CHOOSE s \in Sessions : issued[s] = NoValue /\ \A t \in Sessions : issued[t] = NoValue => s <= t

\* mutants of removeSession: nothing is removed; every session of the user is
removeSession_Nothing(sessions, userId, sessionId) == sessions

removeSession_AllOfUser(sessions, userId, sessionId) == [sessions EXCEPT ![userId] = {}]

\* logout, lines 277-284: delete the one session from the user's set (a user
\* whose set becomes empty loses the map entry, which reads as the empty set)
removeSession(sessions, userId, sessionId) ==
  [sessions EXCEPT ![userId] = @ \ {sessionId}]

\* the session identifiers whose logout has completed
LoggedOut == {s \in Sessions : issued[s] # NoValue /\ s \notin userSessions[issued[s]]}

\* the state of a handleSendMessage invocation that has not happened yet
NoSend ==
  [pc |-> "none", conn |-> NoValue, senderId |-> NoValue, claimed |-> NoValue,
   receiverId |-> NoValue, messageUuid |-> NoValue, hasMessage |-> FALSE, areFriends |-> "unknown", emitted |-> FALSE,
   liveTo |-> {}, stored |-> 0, ack |-> "none", ackUuid |-> NoValue,
   roomAtRecv |-> -1, liveThroughout |-> FALSE]

\* the state of a signal handler invocation that has not happened yet.
\* target: receiverId of a typing or friend-request event, senderId of a
\* status update; event, to, reached, identity: the event the handler emitted,
\* the room it went to, the sockets in that room, and the userId / senderId /
\* updatedBy field it carried; sessionActive: whether the session of the
\* socket was still in userSessions when the event arrived
NoSignal ==
  [pc |-> "none", kind |-> "none", conn |-> NoValue, present |-> FALSE,
   target |-> NoValue, hasId |-> FALSE, hasStatus |-> FALSE, claimed |-> NoValue,
   senderId |-> NoValue, areFriends |-> "unknown", event |-> "none", emits |-> 0,
   to |-> NoValue, reached |-> {}, identity |-> NoValue, isTyping |-> FALSE,
   sessionActive |-> TRUE]

\* the state of a sendFriendRequest invocation that has not happened yet.
\* existing: the id of the row getExistingFriendRequest returned (NoValue:
\* null); existingStatus: its status; row: the id of the row returned
NoFriendCall ==
  [pc |-> "none", senderId |-> NoValue, receiverId |-> NoValue, existing |-> NoValue,
   existingStatus |-> "none", ok |-> FALSE, row |-> NoValue]

\* no FriendService call has completed yet.  userId, other: the arguments;
\* ok: it returned rather than threw; result: what areUsersFriends returned
NoCall ==
  [op |-> "none", userId |-> NoValue, other |-> NoValue, ok |-> FALSE, result |-> FALSE]

\* null, as getExistingFriendRequest returns it
NoRequest ==
  [id |-> NoValue, sender_id |-> NoValue, receiver_id |-> NoValue, status |-> "none"]

\* rows stored before this process started, oldest first: alternately from
\* user 3 and from user 1, all addressed to their common friend, user 2
OldRows ==
  {[id |-> MaxOrderSends + i, sender_id |-> IF i % 2 = 1 THEN 3 ELSE 1,
    receiver_id |-> 2, message_uuid |-> 200 + i, timestamp |-> i] : i \in 1..NumOldRows}

\* the process after startup: no socket, no pending call
InitServer ==
  /\ lastRejected    = NoToken
  /\ lastLogout      = NoToken
  /\ socketUser      = [c \in Conns |-> NoValue]
  /\ socketSession   = [c \in Conns |-> NoValue]
  /\ connPc          = [c \in Conns |-> "closed"]
  /\ connected       = {}
  /\ rooms           = [r \in Users |-> {}]
  /\ offlineMessages = [c \in Conns |-> NoRows]
  /\ lastDrain       = [conn |-> NoValue, ids |-> <<>>]
  /\ pendingDeletes  = {}
  /\ staleDelete     = FALSE
  /\ sends           = [m \in SendIds |-> NoSend]
  /\ signals         = [k \in SignalIds |-> NoSignal]
  /\ drainCount      = [m \in RowIds |-> 0]
  /\ drainReached    = [m \in RowIds |-> {}]
  /\ notifyPending   = {}
  /\ statusUpdates   = {}
  /\ statusWrites    = {}
  /\ is_online       = [u \in Users |-> FALSE]
  /\ friendships     = SeedFriendships
  /\ friend_requests = {}
  /\ friendCalls     = [k \in FriendCallIds |-> NoFriendCall]
  /\ lastCall        = NoCall

\* nobody has logged in: userSessions is the empty Map of auth.js line 701
NoSessions ==
  /\ userSessions = [u \in Users |-> {}]
  /\ issued       = [s \in Sessions |-> NoValue]

\* every user has logged in once: user u holds session u
LoggedIn ==
  /\ userSessions = [u \in Users |-> {u}]
  /\ issued       = [s \in Sessions |-> IF s \in Users THEN s ELSE NoValue]

\* the server right after construction
InitSession ==
  /\ InitServer
  /\ NoSessions
  /\ mailbox = {}
  /\ dbClock = 0

\* the server once its users hold a session each, over an empty table
Init ==
  /\ InitServer
  /\ LoggedIn
  /\ mailbox         = {}
  /\ dbClock         = 0

\* the server starts over a table that still holds OldRows
InitDrain ==
  /\ InitServer
  /\ LoggedIn
  /\ mailbox         = OldRows
  /\ dbClock         = NumOldRows

\* ------------------------------------------------------- handleConnection

\* the next socket id the server hands out
NextConn == CHOOSE c \in Conns : socketUser[c] = NoValue /\ \A d \in Conns : socketUser[d] = NoValue => c <= d

\* generateToken (login, signup): a new session identifier joins the user's
\* set and is signed into the token handed to the client
Login(u) ==
  /\ Cardinality({s \in Sessions : issued[s] # NoValue}) < MaxLogins
  /\ LET sessionId == generateSessionId IN
       /\ issued'       = [issued EXCEPT ![sessionId] = u]
       /\ userSessions' = [userSessions EXCEPT ![u] = @ \cup {sessionId}]
  /\ UNCHANGED <<friendVars, lastRejected, lastLogout, connVars, mailVars, sends, signals,
                 presenceVars>>

\* mutant of ClosedByLogout: the sockets opened with the token are closed
ClosedByLogout_ItsSockets(token) ==
  {c \in connected : socketUser[c] = token.userId /\ socketSession[c] = token.sessionId}

\* logout, lines 262-298: the sockets the handler closes.  It has no reference
\* to io or to any socket, and touches userSessions only.
ClosedByLogout(token) == {}

\* POST /api/auth/logout: no token is a 400, a token that does not verify a
\* 500; otherwise the session it names leaves userSessions.  The handler has
\* no await; open sockets of the session are left alone.
Logout(token) ==
  /\ token \in Credentials
  /\ lastLogout'   = token
  /\ userSessions' = IF token # NoToken /\ jwtVerify(token)
                       THEN removeSession(userSessions, token.userId, token.sessionId)
                       ELSE userSessions
  /\ connected'    = connected \ ClosedByLogout(token)
  /\ rooms'        = [r \in Users |-> rooms[r] \ ClosedByLogout(token)]
  /\ UNCHANGED <<friendVars, issued, lastRejected, socketUser, socketSession, connPc, offlineMessages,
                 lastDrain, mailVars, sends, signals, presenceVars>>

\* a handshake that authenticateSocket refuses: next(new Error(...)), the
\* connection event is never emitted
RejectHandshake(token) ==
  /\ token \in Credentials
  /\ ~authenticateSocket(token)
  /\ lastRejected' = token
  /\ UNCHANGED <<friendVars, userSessions, issued, lastLogout, connVars, mailVars, sends, signals,
                 presenceVars>>

\* a handshake that authenticateSocket accepts, and handleConnection up to its
\* first await: join the room, start the fire-and-forget online write, call
\* getOfflineMessages
Connect(token, limit) ==
  /\ token \in Credentials
  /\ authenticateSocket(token)
  /\ \E c \in 1..limit : socketUser[c] = NoValue
  /\ LET c == NextConn
         u == token.userId
     IN
       /\ socketUser'    = [socketUser EXCEPT ![c] = u]
       /\ socketSession' = [socketSession EXCEPT ![c] = token.sessionId]
       /\ connected'     = connected \cup {c}
       /\ rooms'         = [rooms EXCEPT ![RoomOf(u)] = @ \cup {c}]
       /\ connPc'        = [connPc EXCEPT ![c] = "fetching"]
       /\ statusWrites'  = statusWrites \cup {[userId |-> u, isOnline |-> TRUE, conn |-> c]}
  /\ UNCHANGED <<friendVars, sessionVars, signals, offlineMessages, lastDrain, mailVars, sends, notifyPending,
                 statusUpdates, is_online>>

\* the getOfflineMessages query of socket c executes (or throws)
FetchOfflineMessages(c, fails) ==
  /\ connPc[c] = "fetching"
  /\ offlineMessages' = [offlineMessages EXCEPT ![c] =
                           IF fails THEN [threw |-> TRUE, rows |-> <<>>]
                           ELSE [threw |-> FALSE, rows |-> getOfflineMessages(socketUser[c])]]
  /\ connPc' = [connPc EXCEPT ![c] = "fetched"]
  /\ UNCHANGED <<friendVars, sessionVars, signals, socketUser, socketSession, connected, rooms, lastDrain,
                 mailVars, sends, presenceVars>>

\* mutant of EmitOrder: newest first
EmitOrder_Reversed(msgs) == [i \in 1..Len(msgs) |-> msgs[Len(msgs) + 1 - i]]

\* offlineMessages.forEach: the order in which the fetched rows are emitted
EmitOrder(msgs) == msgs

\* mutant of ListenersAttached: a failed fetch ends the handler
ListenersAttached_OnlyAfterFetch(threw) == ~threw

\* lines 63-97: whether handleConnection goes on to attach the listeners once
\* getOfflineMessages has settled; the inner catch at 88-90 swallows a throw
ListenersAttached(threw) == TRUE

\* handleConnection after the await: emit every fetched row to the room, issue
\* the fire-and-forget delete, start the online notification, attach the
\* listeners
DeliverOfflineMessages(c) ==
  /\ connPc[c] = "fetched"
  /\ LET u     == socketUser[c]
         msgs  == IF offlineMessages[c].threw THEN <<>> ELSE EmitOrder(offlineMessages[c].rows)
         ids   == IdsOf(msgs)
     IN
       /\ lastDrain'    = [conn |-> c, ids |-> [i \in 1..Len(msgs) |-> msgs[i].id]]
       /\ drainCount'   = [m \in RowIds |-> IF m \in ids THEN drainCount[m] + 1 ELSE drainCount[m]]
       /\ drainReached' = [m \in RowIds |-> IF m \in ids THEN drainReached[m] \cup Room(u)
                                                          ELSE drainReached[m]]
       /\ pendingDeletes' = IF ids # {} THEN pendingDeletes \cup {[conn |-> c, ids |-> ids]}
                                        ELSE pendingDeletes
       /\ notifyPending'  = notifyPending \cup
                               {[userId |-> u, isOnline |-> TRUE, conn |-> c,
                                 othersLive |-> FALSE]}
  /\ offlineMessages' = [offlineMessages EXCEPT ![c] = NoRows]
  /\ connPc' = [connPc EXCEPT ![c] =
                  IF ListenersAttached(offlineMessages[c].threw) THEN "attached" ELSE "failed"]
  /\ UNCHANGED <<friendVars, sessionVars, signals, socketUser, socketSession, connected, rooms, mailbox,
                 dbClock, staleDelete, sends, statusUpdates, statusWrites, is_online>>

\* a deleteOfflineMessages call executes (or fails, which is only logged)
DeleteApplied(d, fails) ==
  /\ d \in pendingDeletes
  /\ pendingDeletes' = pendingDeletes \ {d}
  /\ mailbox' = IF fails THEN mailbox ELSE deleteOfflineMessages(d.ids)
  /\ staleDelete' = (staleDelete \/ (~fails /\ ~(d.ids \subseteq {r.id : r \in mailbox})))
  /\ UNCHANGED <<friendVars, sessionVars, signals, connVars, sends, dbClock, drainCount, drainReached,
                 presenceVars>>

\* ------------------------------------------------------- handleDisconnect

\* whether handleDisconnect notifies the friends of a user whose socket closed
ShouldNotifyOffline(u, remaining) == TRUE

\* socket c closes: it leaves every room it joined; the disconnect listener,
\* if already attached, runs handleDisconnect
Disconnect(c) ==
  /\ c \in connected
  /\ connected' = connected \ {c}
  /\ rooms' = [r \in Users |-> rooms[r] \ {c}]
  /\ LET u == socketUser[c]
         remaining == Room(u) \ {c}
     IN
       /\ IF connPc[c] = "attached"
            THEN /\ statusWrites' = statusWrites \cup
                                      {[userId |-> u, isOnline |-> FALSE, conn |-> c]}
                 /\ notifyPending' = IF ShouldNotifyOffline(u, remaining)
                                       THEN notifyPending \cup
                                              {[userId |-> u, isOnline |-> FALSE, conn |-> c,
                                                othersLive |-> remaining # {}]}
                                       ELSE notifyPending
            ELSE UNCHANGED <<statusWrites, notifyPending>>
       /\ sends' = [m \in SendIds |->
                      IF sends[m].pc = "awaitFriends" /\ sends[m].receiverId = u /\ remaining = {}
                        THEN [sends[m] EXCEPT !.liveThroughout = FALSE]
                        ELSE sends[m]]
  /\ UNCHANGED <<friendVars, sessionVars, signals, socketUser, socketSession, connPc, offlineMessages,
                 lastDrain, mailVars, statusUpdates, is_online>>

\* notifyFriendsStatusChange after its await: one friend_status_update per
\* friend (nothing when getUserFriends threw)
NotifyFriends(t, fails) ==
  /\ t \in notifyPending
  /\ notifyPending' = notifyPending \ {t}
  /\ statusUpdates' =
       IF fails THEN statusUpdates
       ELSE statusUpdates \cup
              {[friendId |-> t.userId, isOnline |-> t.isOnline, to |-> f,
                othersLive |-> t.othersLive, whileLive |-> getRoomSize(t.userId) > 0] :
                 f \in getUserFriends(t.userId)}
  /\ UNCHANGED <<friendVars, sessionVars, signals, connVars, mailVars, sends, statusWrites, is_online>>

\* an updateUserOnlineStatus write executes (or fails, which is only logged)
StatusWriteApplied(w, fails) ==
  /\ w \in statusWrites
  /\ statusWrites' = statusWrites \ {w}
  /\ is_online' = IF fails THEN is_online ELSE [is_online EXCEPT ![w.userId] = w.isOnline]
  /\ UNCHANGED <<friendVars, sessionVars, signals, connVars, mailVars, sends, notifyPending, statusUpdates>>

\* ------------------------------------------------------ handleSendMessage

\* send_message payloads: every field present, or exactly one left out
\* (senderId: a sender identity the client put into the payload, if any)
Payloads ==
  {[receiverId |-> r, hasUuid |-> TRUE, hasMessage |-> TRUE, senderId |-> NoValue] :
     r \in Users}
    \cup {[receiverId |-> NoValue, hasUuid |-> TRUE, hasMessage |-> TRUE, senderId |-> NoValue],
          [receiverId |-> 1, hasUuid |-> FALSE, hasMessage |-> TRUE, senderId |-> NoValue],
          [receiverId |-> 1, hasUuid |-> TRUE, hasMessage |-> FALSE, senderId |-> NoValue]}

\* send_message payloads in which the client names user 3 as the sender
SpoofedPayloads ==
  {[receiverId |-> r, hasUuid |-> TRUE, hasMessage |-> TRUE, senderId |-> 3] : r \in {1, 2}}

\* mutant of SenderOf: a sender named in the payload is believed
SenderOf_FromPayload(socketUserId, claimed) ==
  IF claimed # NoValue THEN claimed ELSE socketUserId

\* lines 128, 182, 216, 258: the identity put into a relayed event is
\* socket.userId; the payload is not asked
SenderOf(socketUserId, claimed) == socketUserId

\* the index of the next send_message event
NextSend == CHOOSE m \in SendIds : sends[m].pc = "none" /\ \A k \in SendIds : sends[k].pc = "none" => m <= k

\* mutant of MissingFields: the message body is not looked at
MissingFields_BodyUnchecked(data) == data.receiverId = NoValue \/ ~data.hasUuid

\* line 133: the required-field check
MissingFields(data) ==
  data.receiverId = NoValue \/ ~data.hasUuid \/ ~data.hasMessage

\* mutant of ErrorUuid: message_error carries no identifier
ErrorUuid_None(messageUuid) == NoValue

\* line 173: the messageUuid field of message_error, the one destructured
\* from the payload at line 127
ErrorUuid(messageUuid) == messageUuid

\* mutants of StoreAck: a failed insert is acknowledged as sent; a successful
\* one is reported as an error
StoreAck_AlwaysSent(threw) == "sent"

StoreAck_AlwaysError(threw) == "error"

\* lines 160-173: what the sending socket gets once storeOfflineMessage has
\* settled: message_sent, or message_error from the catch when it threw
StoreAck(threw) == IF threw THEN "error" ELSE "sent"

\* a client sends send_message on its connected socket c.  Before line 97 has
\* run the socket has no send_message listener and the event is discarded;
\* otherwise handleSendMessage runs up to the await of areUsersFriends.
SendMessage(c, data, limit) ==
  /\ c \in connected
  /\ \E m \in 1..limit : sends[m].pc = "none"
  /\ LET m    == NextSend
         uuid == IF data.hasUuid THEN UuidOf(m) ELSE NoValue
         base == [NoSend EXCEPT !.conn = c, !.messageUuid = uuid]
         recv == [base EXCEPT !.receiverId = data.receiverId,
                              !.hasMessage = data.hasMessage,
                              !.claimed = data.senderId,
                              !.senderId = SenderOf(socketUser[c], data.senderId)]
     IN sends' = [sends EXCEPT ![m] =
          IF connPc[c] # "attached"
            THEN [base EXCEPT !.pc = "dropped"]
          ELSE IF MissingFields(data)
            THEN [recv EXCEPT !.pc = "done", !.ack = "error", !.ackUuid = ErrorUuid(uuid)]
          ELSE [recv EXCEPT !.pc = "awaitFriends",
                            !.roomAtRecv = getRoomSize(data.receiverId),
                            !.liveThroughout = (getRoomSize(data.receiverId) > 0)]]
  /\ UNCHANGED <<friendVars, sessionVars, signals, connVars, mailVars, presenceVars>>

\* mutants of Blocked: the check is missing; the check is inverted
Blocked_Never(areFriends) == FALSE

Blocked_Inverted(areFriends) == areFriends

\* line 139: whether the send is rejected as "Users are not friends"
Blocked(areFriends) == ~areFriends

\* mutants of StoreOffline: every payload is stored; none is; only those that
\* reached a socket are
StoreOffline_Always(roomSize) == TRUE

StoreOffline_Never(roomSize) == FALSE

StoreOffline_WhenLive(roomSize) == roomSize > 0

\* line 158: whether the payload just emitted is also stored offline
StoreOffline(roomSize) == roomSize = 0

\* mutants of EmitsTo: nothing is emitted once the sending socket has closed;
\* nothing is emitted at all
EmitsTo_OnlyWhileSenderOpen(receiverRoom, senderOpen) ==
  IF senderOpen THEN receiverRoom ELSE {}

EmitsTo_Nobody(receiverRoom, senderOpen) == {}

\* line 153: io.to(receiverRoom).emit reaches the sockets that are in the
\* room at that moment; the state of the sending socket plays no part
EmitsTo(receiverRoom, senderOpen) == receiverRoom

\* handleSendMessage after the await of areUsersFriends: reject, or emit to
\* the receiver's room, read the room size and either call
\* storeOfflineMessage or acknowledge
FriendsChecked(m, queryFails) ==
  /\ sends[m].pc = "awaitFriends"
  /\ LET s          == sends[m]
         areFriends == areUsersFriends(s.senderId, s.receiverId, queryFails)
         receivers  == EmitsTo(Room(s.receiverId), s.conn \in connected)
         t          == [sends[m] EXCEPT !.liveThroughout = FALSE,
                                        !.areFriends = IF areFriends THEN "yes" ELSE "no"]
         roomSize   == getRoomSize(s.receiverId)
     IN sends' = [sends EXCEPT ![m] =
          IF Blocked(areFriends)
            THEN [t EXCEPT !.pc = "done", !.ack = "error",
                           !.ackUuid = ErrorUuid(s.messageUuid), !.roomAtRecv = -1]
          ELSE IF StoreOffline(roomSize)
            THEN [t EXCEPT !.pc = "storing", !.emitted = TRUE,
                           !.liveTo = receivers]
          ELSE [t EXCEPT !.pc = "done", !.emitted = TRUE, !.roomAtRecv = -1,
                         !.liveTo = receivers,
                         !.ack = "sent", !.ackUuid = s.messageUuid]]
  /\ UNCHANGED <<friendVars, sessionVars, signals, connVars, mailVars, presenceVars>>

\* the storeOfflineMessage insert of send m executes (or fails)
StoreApplied(m, fails) ==
  /\ sends[m].pc = "storing"
  /\ mailbox' = IF fails THEN mailbox
                ELSE storeOfflineMessage(m, sends[m].senderId, sends[m].receiverId,
                                         sends[m].messageUuid)
  /\ dbClock' = IF fails THEN dbClock ELSE dbClock + 1
  /\ sends' = [sends EXCEPT ![m].pc = IF fails THEN "storeFailed" ELSE "stored",
                            ![m].stored = IF fails THEN 0 ELSE 1]
  /\ UNCHANGED <<friendVars, sessionVars, signals, connVars, pendingDeletes, staleDelete, drainCount,
                 drainReached, presenceVars>>

\* handleSendMessage after the await of storeOfflineMessage: message_sent, or
\* message_error from the catch when the store threw
StoreReturned(m) ==
  /\ sends[m].pc \in {"stored", "storeFailed"}
  /\ sends' = [sends EXCEPT ![m].pc = "done", ![m].roomAtRecv = -1,
                            ![m].ack = StoreAck(sends[m].pc = "storeFailed"),
                            ![m].ackUuid = sends[m].messageUuid]
  /\ UNCHANGED <<friendVars, sessionVars, signals, connVars, mailVars, presenceVars>>

\* ------------------------------------------------- signals and receipts

\* payloads of the signal events: complete; absent (the client sent no
\* argument); one field left out; complete and naming user 3 as the originator
SignalPayloads ==
  {[present |-> TRUE, target |-> r, hasId |-> TRUE, hasStatus |-> TRUE, claimed |-> NoValue] :
     r \in Users}
    \cup {[present |-> FALSE, target |-> NoValue, hasId |-> FALSE, hasStatus |-> FALSE,
           claimed |-> NoValue],
          [present |-> TRUE, target |-> NoValue, hasId |-> TRUE, hasStatus |-> TRUE,
           claimed |-> NoValue],
          [present |-> TRUE, target |-> 1, hasId |-> FALSE, hasStatus |-> TRUE,
           claimed |-> NoValue],
          [present |-> TRUE, target |-> 1, hasId |-> TRUE, hasStatus |-> FALSE,
           claimed |-> NoValue],
          [present |-> TRUE, target |-> 2, hasId |-> TRUE, hasStatus |-> TRUE,
           claimed |-> 3]}

\* the index of the next signal event
NextSignalId == CHOOSE k \in SignalIds : signals[k].pc = "none" /\ \A j \in SignalIds : signals[j].pc = "none" => k <= j

\* what a handler knows of its event once the payload is destructured
Received(c, kind, data) ==
  [NoSignal EXCEPT !.kind = kind, !.conn = c, !.present = data.present,
                   !.target = data.target, !.hasId = data.hasId,
                   !.hasStatus = data.hasStatus, !.claimed = data.claimed,
                   !.senderId = SenderOf(socketUser[c], data.claimed),
                   !.sessionActive = (socketSession[c] \in userSessions[socketUser[c]])]

\* io.to(`user_${target}`).emit(event, {..., identity}) by invocation r
Emitted(r, event, target, identity) ==
  [r EXCEPT !.pc = "done", !.event = event, !.emits = r.emits + 1, !.to = RoomOf(target),
            !.reached = Room(target), !.identity = identity]

\* an event arrives on socket c: it is discarded while the socket has no
\* listener for it (before lines 97-110 have run), otherwise the handler runs
\* and leaves the invocation as `handled`
Dispatch(c, kind, handled) ==
  /\ c \in connected
  /\ \E k \in SignalIds : signals[k].pc = "none"
  /\ signals' = [signals EXCEPT ![NextSignalId] =
                   IF connPc[c] # "attached"
                     THEN [NoSignal EXCEPT !.pc = "dropped", !.kind = kind, !.conn = c]
                     ELSE handled]
  /\ UNCHANGED <<friendVars, sessionVars, connVars, mailVars, sends, presenceVars>>

\* handleTypingStart / handleTypingStop up to the await of areUsersFriends:
\* line 219 / 237 throws into the catch when receiverId is missing
Typing(c, kind, data) ==
  LET r == Received(c, kind, data) IN
    Dispatch(c, kind, IF data.target = NoValue THEN [r EXCEPT !.pc = "done"]
                                               ELSE [r EXCEPT !.pc = "awaitFriends"])

handleTypingStart(c, data) == Typing(c, "typing_start", data)

handleTypingStop(c, data) == Typing(c, "typing_stop", data)

\* mutant of TypingBlocked: the friendship is not looked at
TypingBlocked_Never(areFriends) == FALSE

\* lines 221, 239: if (!areFriends) return
TypingBlocked(areFriends) == ~areFriends

\* handleTypingStart / handleTypingStop after the await: return, or emit
\* user_typing to the receiver's room
TypingChecked(k, queryFails) ==
  /\ signals[k].pc = "awaitFriends"
  /\ LET r          == signals[k]
         areFriends == areUsersFriends(r.senderId, r.target, queryFails)
         t          == [r EXCEPT !.areFriends = IF areFriends THEN "yes" ELSE "no"]
     IN signals' = [signals EXCEPT ![k] =
          IF TypingBlocked(areFriends)
            THEN [t EXCEPT !.pc = "done"]
            ELSE [Emitted(t, "user_typing", r.target, r.senderId)
                    EXCEPT !.isTyping = (r.kind = "typing_start")]]
  /\ UNCHANGED <<friendVars, sessionVars, connVars, mailVars, sends, presenceVars>>

\* mutant of MissingRequestFields: requestId is not looked at
MissingRequestFields_IdUnchecked(data) == data.target = NoValue

\* line 253: !receiverId || !requestId
MissingRequestFields(data) == data.target = NoValue \/ ~data.hasId

\* handleFriendRequestNotification: no await, no friendship lookup
handleFriendRequestNotification(c, data) ==
  LET r == Received(c, "friend_request_sent", data) IN
    Dispatch(c, "friend_request_sent",
             IF MissingRequestFields(data)
               THEN [r EXCEPT !.pc = "done"]
               ELSE Emitted(r, "friend_request_received", data.target, r.senderId))

\* mutant of StatusTarget: the update goes back to the room of its author
StatusTarget_Author(senderId, updatedBy) == updatedBy

\* line 196: targetRoom = `user_${senderId}`, the senderId of the payload
StatusTarget(senderId, updatedBy) == senderId

\* line 191: !messageUuid || !status || !senderId
MissingStatusFields(data) == ~data.hasId \/ ~data.hasStatus \/ data.target = NoValue

\* handleMessageStatusUpdate: no await.  Line 182 destructures data itself, not
\* data || {}, outside the try: with no payload it throws, and the async
\* function's promise is rejected with no handler on it.
handleMessageStatusUpdate(c, data) ==
  LET r == Received(c, "update_message_status", data) IN
    Dispatch(c, "update_message_status",
             IF ~data.present
               THEN [r EXCEPT !.pc = "unhandledRejection", !.senderId = NoValue]
             ELSE IF MissingStatusFields(data)
               THEN [r EXCEPT !.pc = "done"]
             ELSE Emitted(r, "message_status_update",
                          StatusTarget(data.target, r.senderId), r.senderId))

\* -------------------------------------------------------- friend requests

\* part_001:235 as written: the argument of .or(...) is and(`...`), a call
\* of a name no module defines, so building the filter raises a ReferenceError
\* inside the try on every call, before any query is sent
FilterRaises == TRUE

\* FriendService.areUsersFriends called on its own
AreUsersFriendsCalled(userId1, userId2) ==
  /\ lastCall' = [NoCall EXCEPT !.op = "areUsersFriends", !.userId = userId1,
                                !.other = userId2, !.ok = TRUE,
                                !.result = areUsersFriends(userId1, userId2, FilterRaises)]
  /\ UNCHANGED <<sessionVars, connVars, mailVars, sends, signals, presenceVars,
                 friendships, friend_requests, friendCalls>>

\* FriendService.getExistingFriendRequest: .single() on the rows between the
\* two users in either direction.  No row and several rows both come back as
\* PGRST116 with data null; any other error is caught and gives null too.
getExistingFriendRequest(userId1, userId2, fails) ==
  LET rows == {r \in friend_requests :
                 \/ (r.sender_id = userId1 /\ r.receiver_id = userId2)
                 \/ (r.sender_id = userId2 /\ r.receiver_id = userId1)}
  IN IF fails \/ Cardinality(rows) # 1 THEN NoRequest ELSE CHOOSE r \in rows : TRUE

\* the index of the next sendFriendRequest call
NextFriendCall == CHOOSE k \in FriendCallIds : friendCalls[k].pc = "none" /\ \A j \in FriendCallIds : friendCalls[j].pc = "none" => k <= j

\* what a call of sendFriendRequest leaves in lastCall
SendResult(senderId, receiverId, ok) ==
  [NoCall EXCEPT !.op = "sendFriendRequest", !.userId = senderId, !.other = receiverId,
                 !.ok = ok]

\* sendFriendRequest, lines 5-18: the friendship check and the lookup of an
\* existing request; the call throws when the users are friends or the
\* request found is pending, and goes on to its write otherwise.  (The route
\* refuses a request to oneself, part_004:24.)
sendFriendRequest(senderId, receiverId, queryFails, lookupFails) ==
  /\ senderId # receiverId
  /\ \E k \in FriendCallIds : friendCalls[k].pc = "none"
  /\ LET k        == NextFriendCall
         existing == getExistingFriendRequest(senderId, receiverId, lookupFails)
         call     == [NoFriendCall EXCEPT !.senderId = senderId, !.receiverId = receiverId,
                                          !.existing = existing.id,
                                          !.existingStatus = existing.status]
     IN IF areUsersFriends(senderId, receiverId, queryFails) \/ existing.status = "pending"
          THEN /\ friendCalls' = [friendCalls EXCEPT ![k] = [call EXCEPT !.pc = "done"]]
               /\ lastCall' = SendResult(senderId, receiverId, FALSE)
          ELSE /\ friendCalls' = [friendCalls EXCEPT ![k] = [call EXCEPT !.pc = "writing"]]
               /\ UNCHANGED lastCall
  /\ UNCHANGED <<sessionVars, connVars, mailVars, sends, signals, presenceVars,
                 friendships, friend_requests>>

\* lines 20-29: the update of a rejected request sets status (and message,
\* updated_at); sender_id and receiver_id stay as they are
ReactivatedRow(row, senderId, receiverId) ==
  [row EXCEPT !.status = "pending"]

\* the write of a sendFriendRequest call executes (or fails): the update of
\* the rejected row found by the lookup, lines 20-32, or the insert of a new
\* row, lines 37-53, which UNIQUE(sender_id, receiver_id) refuses when a row
\* of that direction exists
FriendRequestWritten(k, fails) ==
  /\ friendCalls[k].pc = "writing"
  /\ LET call      == friendCalls[k]
         sameWay   == {r \in friend_requests : r.sender_id = call.senderId
                                                 /\ r.receiver_id = call.receiverId}
         old       == {r \in friend_requests : r.id = call.existing}
         freeIds   == {id \in RequestIds : \A r \in friend_requests : r.id # id}
         update    == call.existingStatus = "rejected"
         ok        == ~fails /\ (IF update THEN old # {} ELSE sameWay = {})
         newId     == CHOOSE id \in freeIds : \A j \in freeIds : id <= j
     IN
       /\ (ok /\ ~update) => freeIds # {}
       /\ friend_requests' =
            IF ~ok THEN friend_requests
            ELSE IF update
              THEN (friend_requests \ old)
                     \cup {ReactivatedRow(r, call.senderId, call.receiverId) : r \in old}
            ELSE friend_requests \cup {[id |-> newId, sender_id |-> call.senderId,
                                         receiver_id |-> call.receiverId,
                                         status |-> "pending"]}
       /\ friendCalls' = [friendCalls EXCEPT ![k].pc = "done", ![k].ok = ok,
                             ![k].row = IF ~ok THEN NoValue
                                        ELSE IF update THEN call.existing ELSE newId]
       /\ lastCall' = SendResult(call.senderId, call.receiverId, ok)
  /\ UNCHANGED <<sessionVars, connVars, mailVars, sends, signals, presenceVars, friendships>>

\* mutant of Decidable: the caller is not looked at
Decidable_ByAnyone(r, requestId, userId, party) ==
  r.id = requestId /\ r.status = "pending"

\* lines 86-88, 112-114, 137-139: the row an accept, reject or cancel
\* updates: .eq('id', requestId), .eq('receiver_id' or 'sender_id', userId),
\* .eq('status', 'pending').  party: the value of that column in r
Decidable(r, requestId, userId, party) ==
  r.id = requestId /\ party = userId /\ r.status = "pending"

\* on_friend_request_accepted (part_003:161-183): a request that becomes
\* accepted inserts its pair, smaller id first, unless the row is there
create_friendship_from_request(rows) ==
  friendships \cup {<<IF r.sender_id < r.receiver_id THEN r.sender_id ELSE r.receiver_id,
                      IF r.sender_id < r.receiver_id THEN r.receiver_id ELSE r.sender_id>> :
                       r \in rows}

\* one UPDATE friend_requests SET status ... .single(): with no matching row
\* .single() reports an error, which the method throws
UpdateStatus(op, requestId, userId, matching, status, fails) ==
  LET ok == ~fails /\ matching # {} IN
    /\ requestId \in RequestIds
    /\ friend_requests' = IF ok THEN (friend_requests \ matching)
                                       \cup {[r EXCEPT !.status = status] : r \in matching}
                                ELSE friend_requests
    /\ friendships' = IF ok /\ status = "accepted"
                         THEN create_friendship_from_request(matching)
                         ELSE friendships
    /\ lastCall' = [NoCall EXCEPT !.op = op, !.userId = userId, !.other = requestId,
                                  !.ok = ok]
    /\ UNCHANGED <<sessionVars, connVars, mailVars, sends, signals, presenceVars,
                   friendCalls>>

\* lines 81-104: only the receiver, only while pending
acceptFriendRequest(requestId, userId, fails) ==
  UpdateStatus("acceptFriendRequest", requestId, userId,
               {r \in friend_requests : Decidable(r, requestId, userId, r.receiver_id)},
               "accepted", fails)

\* lines 107-129: only the receiver, only while pending
rejectFriendRequest(requestId, userId, fails) ==
  UpdateStatus("rejectFriendRequest", requestId, userId,
               {r \in friend_requests : Decidable(r, requestId, userId, r.receiver_id)},
               "rejected", fails)

\* lines 132-154: only the sender, only while pending
cancelFriendRequest(requestId, userId, fails) ==
  UpdateStatus("cancelFriendRequest", requestId, userId,
               {r \in friend_requests : Decidable(r, requestId, userId, r.sender_id)},
               "cancelled", fails)

\* ---------------------------------------------------------- specification

\* the relay: connections, the mailbox drain and sends.  The presence calls
\* are issued by the handlers but their completions, which touch nothing the
\* relay reads, are left to SpecPresence.
NextRelay ==
  \/ \E token \in Credentials : Connect(token, MaxConns)
  \/ \E c \in Conns, fails \in BOOLEAN : FetchOfflineMessages(c, fails)
  \/ \E c \in Conns : DeliverOfflineMessages(c)
  \/ \E d \in pendingDeletes, fails \in BOOLEAN : DeleteApplied(d, fails)
  \/ \E c \in Conns : Disconnect(c)
  \/ \E c \in Conns, data \in Payloads : SendMessage(c, data, MaxSends)
  \/ \E m \in SendIds, queryFails \in BOOLEAN : FriendsChecked(m, queryFails)
  \/ \E m \in SendIds, fails \in BOOLEAN : StoreApplied(m, fails)
  \/ \E m \in SendIds : StoreReturned(m)

SpecRelay == Init /\ [][NextRelay]_vars

\* the relay started over a non-empty mailbox
NextDrain ==
  \/ \E token \in Credentials : Connect(token, MaxDrainConns)
  \/ \E c \in Conns, fails \in BOOLEAN : FetchOfflineMessages(c, fails)
  \/ \E c \in Conns : DeliverOfflineMessages(c)
  \/ \E d \in pendingDeletes, fails \in BOOLEAN : DeleteApplied(d, fails)
  \/ \E c \in Conns : Disconnect(c)
  \/ \E c \in Conns, data \in Payloads : SendMessage(c, data, MaxSends)
  \/ \E m \in SendIds, queryFails \in BOOLEAN : FriendsChecked(m, queryFails)
  \/ \E m \in SendIds, fails \in BOOLEAN : StoreApplied(m, fails)
  \/ \E m \in SendIds : StoreReturned(m)

SpecDrain == InitDrain /\ [][NextDrain]_vars

\* the relay with two sends in flight at once
NextOrder ==
  \/ \E token \in Credentials : Connect(token, MaxOrderConns)
  \/ \E c \in Conns, fails \in BOOLEAN : FetchOfflineMessages(c, fails)
  \/ \E c \in Conns : DeliverOfflineMessages(c)
  \/ \E d \in pendingDeletes, fails \in BOOLEAN : DeleteApplied(d, fails)
  \/ \E c \in Conns : Disconnect(c)
  \/ \E c \in Conns, data \in Payloads : SendMessage(c, data, MaxOrderSends)
  \/ \E m \in SendIds, queryFails \in BOOLEAN : FriendsChecked(m, queryFails)
  \/ \E m \in SendIds, fails \in BOOLEAN : StoreApplied(m, fails)
  \/ \E m \in SendIds : StoreReturned(m)

SpecOrder == Init /\ [][NextOrder]_vars

\* presence: connections and the presence calls they issue, without sends
NextPresence ==
  \/ \E token \in Credentials : Connect(token, MaxPresenceConns)
  \/ \E c \in Conns, fails \in BOOLEAN : FetchOfflineMessages(c, fails)
  \/ \E c \in Conns : DeliverOfflineMessages(c)
  \/ \E c \in Conns : Disconnect(c)
  \/ \E t \in notifyPending, fails \in BOOLEAN : NotifyFriends(t, fails)
  \/ \E w \in statusWrites, fails \in BOOLEAN : StatusWriteApplied(w, fails)

SpecPresence == Init /\ [][NextPresence]_vars

\* sessions: logins, logouts and handshakes from a server that has just
\* started, with the connection handler the accepted handshakes run
NextSession ==
  \/ \E u \in Users : Login(u)
  \/ \E token \in Credentials : Logout(token)
  \/ \E token \in Credentials : RejectHandshake(token)
  \/ \E token \in Credentials : Connect(token, MaxSessionConns)
  \/ \E c \in Conns, fails \in BOOLEAN : FetchOfflineMessages(c, fails)
  \/ \E c \in Conns : DeliverOfflineMessages(c)
  \/ \E c \in Conns : Disconnect(c)

SpecSession == InitSession /\ [][NextSession]_vars

\* the signal router: typing, friend-request and status events, next to
\* sends whose payload names a sender
NextSignal ==
  \/ \E token \in Credentials : Connect(token, MaxSignalConns)
  \/ \E c \in Conns, fails \in BOOLEAN : FetchOfflineMessages(c, fails)
  \/ \E c \in Conns : DeliverOfflineMessages(c)
  \/ \E c \in Conns : Disconnect(c)
  \/ \E c \in Conns, data \in SignalPayloads : handleTypingStart(c, data)
  \/ \E c \in Conns, data \in SignalPayloads : handleTypingStop(c, data)
  \/ \E k \in SignalIds, queryFails \in BOOLEAN : TypingChecked(k, queryFails)
  \/ \E c \in Conns, data \in SignalPayloads : handleFriendRequestNotification(c, data)
  \/ \E c \in Conns, data \in SignalPayloads : handleMessageStatusUpdate(c, data)
  \/ \E c \in Conns, data \in SpoofedPayloads : SendMessage(c, data, MaxSends)
  \/ \E m \in SendIds, queryFails \in BOOLEAN : FriendsChecked(m, queryFails)
  \/ \E m \in SendIds, fails \in BOOLEAN : StoreApplied(m, fails)
  \/ \E m \in SendIds : StoreReturned(m)

SpecSignal == Init /\ [][NextSignal]_vars

\* logout next to open sockets: tokens are logged out while the sockets
\* opened with them connect, receive friend-request notices and send them
NextLogout ==
  \/ \E token \in Credentials : Logout(token)
  \/ \E token \in Credentials : Connect(token, MaxLogoutConns)
  \/ \E c \in Conns, fails \in BOOLEAN : FetchOfflineMessages(c, fails)
  \/ \E c \in Conns : DeliverOfflineMessages(c)
  \/ \E c \in Conns : Disconnect(c)
  \/ \E c \in Conns, data \in SignalPayloads : handleFriendRequestNotification(c, data)

SpecLogout == Init /\ [][NextLogout]_vars

\* the friend service: requests sent, accepted, rejected and cancelled, and
\* friendship lookups
NextFriends ==
  \/ \E u1, u2 \in Users : AreUsersFriendsCalled(u1, u2)
  \/ \E s, r \in Users, queryFails, lookupFails \in BOOLEAN :
        sendFriendRequest(s, r, queryFails, lookupFails)
  \/ \E k \in FriendCallIds, fails \in BOOLEAN : FriendRequestWritten(k, fails)
  \/ \E id \in RequestIds, u \in Users, fails \in BOOLEAN : acceptFriendRequest(id, u, fails)
  \/ \E id \in RequestIds, u \in Users, fails \in BOOLEAN : rejectFriendRequest(id, u, fails)
  \/ \E id \in RequestIds, u \in Users, fails \in BOOLEAN : cancelFriendRequest(id, u, fails)

SpecFriends == Init /\ [][NextFriends]_vars

\* connection handling with every storage call free to fail, started over a
\* non-empty mailbox
NextFaults ==
  \/ \E token \in Credentials : Connect(token, MaxPresenceConns)
  \/ \E c \in Conns, fails \in BOOLEAN : FetchOfflineMessages(c, fails)
  \/ \E c \in Conns : DeliverOfflineMessages(c)
  \/ \E d \in pendingDeletes, fails \in BOOLEAN : DeleteApplied(d, fails)
  \/ \E c \in Conns : Disconnect(c)
  \/ \E t \in notifyPending, fails \in BOOLEAN : NotifyFriends(t, fails)
  \/ \E w \in statusWrites, fails \in BOOLEAN : StatusWriteApplied(w, fails)

SpecFaults == InitDrain /\ [][NextFaults]_vars

\* ------------------------------------------------------------------ claims

\* C1: a send whose friendship lookup yields false is never emitted as
\* new_message to the receiver's room, and its socket gets message_error.
C1_NonFriendsBlocked ==
  \A m \in SendIds :
    sends[m].areFriends = "no" =>
      /\ ~sends[m].emitted
      /\ sends[m].liveTo = {}
      /\ sends[m].pc = "done"
      /\ sends[m].ack = "error"

\* a send between non-friends was rejected while the receiver was connected
C1_Witness ==
  \E m \in SendIds :
    /\ sends[m].areFriends = "no"
    /\ sends[m].pc = "done"
    /\ <<socketUser[sends[m].conn], sends[m].receiverId>> = <<1, 3>>
    /\ Room(3) # {}

\* C2: a send rejected because sender and receiver are not friends never
\* reaches storeOfflineMessage: no row is created for it, and the step that
\* rejects it leaves the mailbox as it was.
C2_RejectedSendStoresNothing ==
  /\ [](\A m \in SendIds :
          sends[m].areFriends = "no" =>
            /\ sends[m].stored = 0
            /\ sends[m].pc \notin {"storing", "stored", "storeFailed"}
            /\ \A r \in mailbox : r.id # m)
  /\ [][\A m \in SendIds :
          (sends[m].pc = "awaitFriends" /\ sends'[m].areFriends = "no")
            => mailbox' = mailbox]_vars

\* a send was rejected while the receiver's room was empty
C2_Witness ==
  \E m \in SendIds :
    /\ sends[m].areFriends = "no"
    /\ sends[m].ack = "error"
    /\ getRoomSize(sends[m].receiverId) = 0
    /\ sends[m].receiverId # socketUser[sends[m].conn]

\* C3: when a send passes authorization and the receiver's room was never
\* empty from the receipt of the event to the reachability check, new_message
\* goes to every socket in the room and the send is acknowledged without a
\* call to storeOfflineMessage.
C3_LiveDelivery ==
  [][\A m \in SendIds :
       (/\ sends[m].pc = "awaitFriends"
        /\ sends'[m].areFriends = "yes"
        /\ sends[m].liveThroughout)
         => /\ sends'[m].liveTo = Room(sends[m].receiverId)
            /\ sends'[m].liveTo # {}
            /\ sends'[m].pc = "done"
            /\ sends'[m].ack = "sent"
            /\ sends'[m].stored = 0
            /\ mailbox' = mailbox]_vars

\* a send reached two live sockets of the receiver
C3_Witness ==
  \E m \in SendIds :
    /\ sends[m].pc = "done"
    /\ sends[m].ack = "sent"
    /\ Cardinality(sends[m].liveTo) = 2
    /\ sends[m].stored = 0

\* C4 as claimed: an authorized send whose receiver had no live socket when
\* the event was received ends with one row stored for it.
C4_Original ==
  [][\A m \in SendIds :
       (/\ sends[m].pc # "done"
        /\ sends'[m].pc = "done"
        /\ sends'[m].areFriends = "yes"
        /\ sends[m].roomAtRecv = 0)
         => sends'[m].stored = 1]_vars

\* C4, amended: an authorized send whose receiver's room is empty at the
\* reachability check calls storeOfflineMessage once, nothing having been
\* emitted live; when that insert succeeds it adds exactly one row, carrying
\* the send's sender, receiver and messageUuid, and no send ever has two rows.
C4_QueuedWhenUnreachableAtCheck ==
  /\ [][\A m \in SendIds :
          (/\ sends[m].pc = "awaitFriends"
           /\ sends'[m].areFriends = "yes"
           /\ getRoomSize(sends[m].receiverId) = 0)
            => (sends'[m].pc = "storing" /\ sends'[m].liveTo = {})]_vars
  /\ [][\A m \in SendIds :
          (sends[m].pc = "storing" /\ sends'[m].pc = "stored")
            => /\ sends'[m].stored = 1
               /\ \E r \in mailbox' \ mailbox :
                    /\ mailbox' = mailbox \cup {r}
                    /\ r.message_uuid = UuidOf(m)
                    /\ r.message_uuid = sends[m].messageUuid
                    /\ r.receiver_id = sends[m].receiverId
                    /\ r.sender_id = socketUser[sends[m].conn]]_vars
  /\ [](\A m \in SendIds :
          Cardinality({r \in mailbox : r.message_uuid = UuidOf(m)}) <= 1)

\* a send found the room empty at the check and its row is in the mailbox
C4_Witness ==
  \E m \in SendIds :
    /\ sends[m].pc = "done"
    /\ sends[m].ack = "sent"
    /\ sends[m].liveTo = {}
    /\ \E r \in mailbox : r.id = m /\ r.message_uuid = sends[m].messageUuid

\* C5 as claimed: every authorized send ends either emitted to a non-empty
\* room or stored, never both and never neither.
C5_Original ==
  \A m \in SendIds :
    (sends[m].pc = "done" /\ sends[m].areFriends = "yes")
      => ((sends[m].liveTo # {}) # (sends[m].stored = 1))

\* C5, amended: every authorized send takes one path, decided at the
\* reachability check: emitted to a non-empty room and not stored, or emitted
\* to nobody and handed to storeOfflineMessage; it is never both emitted live
\* and stored, and it ends with neither only when the insert failed, in which
\* case the sender gets message_error.
C5_OnePath ==
  \A m \in SendIds :
    /\ sends[m].pc \in {"storing", "stored", "storeFailed"}
         => (sends[m].liveTo = {} /\ sends[m].emitted)
    /\ sends[m].stored = 1 => sends[m].liveTo = {}
    /\ (sends[m].pc = "done" /\ sends[m].areFriends = "yes")
         => \/ sends[m].liveTo # {} /\ sends[m].stored = 0 /\ sends[m].ack = "sent"
            \/ sends[m].liveTo = {} /\ sends[m].stored = 1 /\ sends[m].ack = "sent"
            \/ sends[m].liveTo = {} /\ sends[m].stored = 0 /\ sends[m].ack = "error"

\* a send was stored, and the receiver connected right after the check
C5_Witness ==
  \E m \in SendIds :
    /\ sends[m].pc = "done"
    /\ sends[m].areFriends = "yes"
    /\ sends[m].stored = 1
    /\ Room(sends[m].receiverId) # {}

\* C6: every message acknowledged with message_sent reached a socket of the
\* receiver, live or from a drain, or is still waiting in the mailbox.
C6_AckedMessageDelivered ==
  \A m \in SendIds :
    sends[m].ack = "sent"
      => \/ sends[m].liveTo # {}
         \/ \E r \in mailbox : r.id = m
         \/ drainReached[m] # {}

\* C7 as claimed: once a socket's drain is over and its delete has run, the
\* mailbox holds none of the rows the drain emitted.
C7_Original ==
  \A c \in Conns :
    (connPc[c] = "attached" /\ lastDrain.conn = c /\ pendingDeletes = {})
      => \A r \in mailbox : r.id \notin {lastDrain.ids[i] : i \in 1..Len(lastDrain.ids)}

\* C7, amended: when getOfflineMessages succeeds it returns every row
\* addressed to the user at that moment; the drain emits exactly those rows in
\* ascending timestamp order, whoever sent them, and issues one delete for
\* them; when that delete runs it removes exactly those rows, or nothing if it
\* fails.
C7_DrainInOrder ==
  /\ [][\A c \in Conns :
          (connPc[c] = "fetching" /\ connPc'[c] = "fetched" /\ ~offlineMessages'[c].threw)
            => LET rows == offlineMessages'[c].rows IN
                 /\ {rows[i] : i \in 1..Len(rows)} =
                      {r \in mailbox : r.receiver_id = socketUser[c]}
                 /\ Len(rows) = Cardinality({r \in mailbox : r.receiver_id = socketUser[c]})]_vars
  /\ [][\A c \in Conns :
          (connPc[c] = "fetched" /\ connPc'[c] = "attached" /\ ~offlineMessages[c].threw)
            => LET rows == offlineMessages[c].rows IN
                 /\ lastDrain' = [conn |-> c, ids |-> [i \in 1..Len(rows) |-> rows[i].id]]
                 /\ \A i, j \in 1..Len(rows) : i < j => rows[i].timestamp < rows[j].timestamp
                 /\ \A i \in 1..Len(rows) : drainCount'[rows[i].id] = drainCount[rows[i].id] + 1
                 /\ rows # <<>> => [conn |-> c, ids |-> IdsOf(rows)] \in pendingDeletes']_vars
  /\ [][\A d \in pendingDeletes \ pendingDeletes' :
          \/ mailbox' = mailbox
          \/ mailbox' = {r \in mailbox : r.id \notin d.ids}]_vars

\* a drain emitted two rows from different senders and its delete removed them
C7_Witness ==
  /\ lastDrain.conn # NoValue
  /\ connPc[lastDrain.conn] = "attached"
  /\ Len(lastDrain.ids) >= 2
  /\ pendingDeletes = {}
  /\ \A r \in mailbox : r.id \notin {lastDrain.ids[i] : i \in 1..Len(lastDrain.ids)}

\* C8: no offline_messages row is emitted by more than one drain.
C8_DrainedAtMostOnce ==
  \A id \in RowIds : drainCount[id] <= 1

\* C9: no friend_status_update with isOnline=false is emitted for a user whose
\* disconnecting socket left another of the user's sockets in the room.
C9_NoOfflineWhileOthersLive ==
  \A s \in statusUpdates : ~(~s.isOnline /\ s.othersLive /\ s.whileLive)

\* C10: no send_message event received on a connected socket is discarded
\* without message_sent or message_error.
C10_NoSendDropped ==
  \A m \in SendIds : sends[m].pc # "dropped"

\* C11 as claimed: every send that passed validation and authorization ends
\* with message_sent carrying its messageUuid, whatever the mailbox insert did.
C11_Original ==
  \A m \in SendIds :
    (sends[m].pc = "done" /\ sends[m].areFriends = "yes")
      => (sends[m].ack = "sent" /\ sends[m].ackUuid = sends[m].messageUuid)

\* C11, amended: an authorized send is acknowledged with message_sent carrying
\* its messageUuid when the receiver's room is non-empty at the reachability
\* check, and when the room is empty and storeOfflineMessage succeeds; when
\* the insert fails the socket gets message_error and no message_sent.
C11_SentUnlessStoreFailed ==
  /\ [][\A m \in SendIds :
          (/\ sends[m].pc = "awaitFriends"
           /\ sends'[m].areFriends = "yes"
           /\ getRoomSize(sends[m].receiverId) > 0)
            => /\ sends'[m].pc = "done"
               /\ sends'[m].ack = "sent"
               /\ sends'[m].ackUuid = UuidOf(m)]_vars
  /\ [][\A m \in SendIds :
          (sends[m].pc \in {"stored", "storeFailed"} /\ sends'[m].pc # sends[m].pc)
            => /\ sends'[m].pc = "done"
               /\ sends'[m].ackUuid = UuidOf(m)
               /\ (sends'[m].ack = "sent") = (sends[m].pc = "stored")]_vars
  /\ [](\A m \in SendIds :
          (sends[m].pc = "done" /\ sends[m].areFriends = "yes")
            => /\ sends[m].ack \in {"sent", "error"}
               /\ (sends[m].ack = "sent") = (sends[m].liveTo # {} \/ sends[m].stored = 1))

\* a send to a receiver with no socket was stored and acknowledged as sent,
\* and the receiver is still unreachable
C11_Witness ==
  \E m \in SendIds :
    /\ sends[m].pc = "done"
    /\ sends[m].areFriends = "yes"
    /\ sends[m].ack = "sent"
    /\ sends[m].ackUuid = UuidOf(m)
    /\ sends[m].stored = 1
    /\ Room(sends[m].receiverId) = {}

\* C12: when the storeOfflineMessage insert of a send fails, nothing is added
\* to the mailbox and the sending socket gets message_error with the send's
\* messageUuid; no send that reached nobody and stored nothing is ever
\* acknowledged with message_sent.
C12_StoreFailureSurfaced ==
  /\ [][\A m \in SendIds :
          (sends[m].pc = "storing" /\ sends'[m].pc = "storeFailed")
            => (mailbox' = mailbox /\ sends'[m].ack = "none")]_vars
  /\ [][\A m \in SendIds :
          (sends[m].pc = "storeFailed" /\ sends'[m].pc # "storeFailed")
            => /\ sends'[m].pc = "done"
               /\ sends'[m].ack = "error"
               /\ sends'[m].ackUuid = sends[m].messageUuid
               /\ sends'[m].ackUuid = UuidOf(m)]_vars
  /\ [](\A m \in SendIds :
          (sends[m].ack = "sent" /\ sends[m].liveTo = {}) => sends[m].stored = 1)

\* the insert of an authorized send failed and the sender got message_error
C12_Witness ==
  \E m \in SendIds :
    /\ sends[m].pc = "done"
    /\ sends[m].areFriends = "yes"
    /\ sends[m].emitted
    /\ sends[m].stored = 0
    /\ sends[m].ack = "error"
    /\ sends[m].ackUuid = UuidOf(m)
    /\ \A r \in mailbox : r.id # m

\* C13 as claimed: every message_error of a send that failed validation or
\* authorization carries a message identifier.
C13_Original ==
  \A m \in SendIds :
    (sends[m].ack = "error" /\ sends[m].areFriends \in {"unknown", "no"})
      => sends[m].ackUuid # NoValue

\* C13, amended: every message_error carries the messageUuid field of the
\* payload as it was received: the send's identifier whenever the payload had
\* one (always so for an authorization failure), and none when the payload
\* came without messageUuid, which is itself a validation failure.
C13_ErrorEchoesUuid ==
  \A m \in SendIds :
    sends[m].ack = "error"
      => /\ sends[m].ackUuid = sends[m].messageUuid
         /\ sends[m].messageUuid # NoValue => sends[m].ackUuid = UuidOf(m)
         /\ sends[m].areFriends = "no" => sends[m].ackUuid = UuidOf(m)

\* a payload without receiverId was rejected with its messageUuid echoed
C13_Witness ==
  \E m \in SendIds :
    /\ sends[m].pc = "done"
    /\ sends[m].ack = "error"
    /\ sends[m].areFriends = "unknown"
    /\ sends[m].receiverId = NoValue
    /\ sends[m].ackUuid = UuidOf(m)

\* C14: a send_message payload that lacks receiverId, messageUuid or message
\* and reaches handleSendMessage is answered with message_error at once: no
\* friendship lookup is awaited, nothing is emitted to a room, no insert is
\* issued and the mailbox is left as it was.
C14_MissingFieldRejected ==
  /\ [](\A m \in SendIds :
          (/\ sends[m].pc \notin {"none", "dropped"}
           /\ (sends[m].receiverId = NoValue \/ sends[m].messageUuid = NoValue
                 \/ ~sends[m].hasMessage))
            => /\ sends[m].pc = "done"
               /\ sends[m].ack = "error"
               /\ sends[m].areFriends = "unknown"
               /\ ~sends[m].emitted
               /\ sends[m].liveTo = {}
               /\ sends[m].stored = 0
               /\ \A r \in mailbox : r.id # m)
  /\ [][\A m \in SendIds :
          (sends[m].pc = "none" /\ sends'[m].pc = "done")
            => (mailbox' = mailbox /\ pendingDeletes' = pendingDeletes)]_vars

\* a payload without a message body, addressed to a connected user, was rejected
C14_Witness ==
  \E m \in SendIds :
    /\ sends[m].pc = "done"
    /\ ~sends[m].hasMessage
    /\ sends[m].receiverId # NoValue
    /\ sends[m].messageUuid # NoValue
    /\ sends[m].ack = "error"
    /\ Room(sends[m].receiverId) # {}

\* C15: a socket is opened only for a token whose (userId, sessionId) pair is
\* in userSessions at the handshake; a refused handshake changes no socket, no
\* room, no mailbox row and issues no presence write or notification.
C15_AcceptedOnlyWithSession ==
  /\ [][\A c \in Conns :
          (c \notin connected /\ c \in connected')
            => /\ socketSession'[c] \in userSessions[socketUser'[c]]
               /\ issued[socketSession'[c]] = socketUser'[c]]_vars
  /\ [][lastRejected' # lastRejected
          => /\ ~(/\ lastRejected'.signed
                  /\ lastRejected'.sessionId \in userSessions[lastRejected'.userId])
             /\ UNCHANGED <<connVars, mailVars, sends, presenceVars>>]_vars

\* a signed token of a session that was logged out was refused while the same
\* user holds an open socket
C15_Witness ==
  /\ lastRejected.signed
  /\ lastRejected.sessionId \in LoggedOut
  /\ \E c \in connected : socketUser[c] = lastRejected.userId

\* C16: a session whose logout has completed is out of userSessions from the
\* logout step on and never returns; no socket is opened for its token.
C16_LoggedOutTokenRejected ==
  /\ [][(lastLogout' # lastLogout /\ lastLogout'.signed)
          => lastLogout'.sessionId \in LoggedOut']_vars
  /\ [][\A s \in LoggedOut : s \in LoggedOut']_vars
  /\ [][\A c \in Conns :
          (c \notin connected /\ c \in connected') => socketSession'[c] \notin LoggedOut]_vars

\* the token of the latest logout was presented again and refused, while its
\* user holds another active session
C16_Witness ==
  /\ lastLogout.signed
  /\ lastRejected = lastLogout
  /\ userSessions[lastLogout.userId] # {}

\* C17: a step removes a session from userSessions only if it is a logout
\* presenting the signed token of exactly that session; every other session,
\* of that user and of the others, stays and still passes authenticateSocket.
C17_LogoutRemovesOnlyItsSession ==
  [][\A u \in Users : \A s \in userSessions[u] :
       LET token == [userId |-> u, sessionId |-> s, signed |-> TRUE] IN
         IF lastLogout' = token
           THEN s \notin userSessions'[u]
           ELSE s \in userSessions'[u] /\ authenticateSocket(token)']_vars

\* a user logged out one of two sessions and holds a socket opened with the other
C17_Witness ==
  /\ lastLogout.signed
  /\ lastLogout.sessionId \in LoggedOut
  /\ \E c \in connected :
       /\ socketUser[c] = lastLogout.userId
       /\ socketSession[c] # lastLogout.sessionId
       /\ socketSession[c] \in userSessions[socketUser[c]]

\* C18: the room user_<u> holds a socket exactly when u has an open socket;
\* an open socket is in its own user's room and in no other, from the first
\* step of handleConnection on, and a closed socket is in none.
C18_RoomIffLiveConnection ==
  /\ \A u \in Users : (rooms[u] # {}) = (\E c \in connected : socketUser[c] = u)
  /\ \A c \in connected : {r \in Users : c \in rooms[r]} = {socketUser[c]}
  /\ \A c \in Conns \ connected : \A r \in Users : c \notin rooms[r]

\* two sockets of one user are in its room, one of them still being drained
C18_Witness ==
  \E u \in Users :
    /\ Cardinality(rooms[u]) = 2
    /\ \E c \in rooms[u] : connPc[c] = "fetching"
    /\ \E c \in rooms[u] : connPc[c] = "attached"

\* C19: a disconnect that empties the user's room issues the offline write
\* and the offline notification of the user's friends.
C19_DisconnectSequenceRuns ==
  [][\A c \in Conns :
       (c \in connected /\ c \notin connected' /\ rooms'[socketUser[c]] = {})
         => /\ [userId |-> socketUser[c], isOnline |-> FALSE, conn |-> c] \in statusWrites'
            /\ \E t \in notifyPending' :
                 t.userId = socketUser[c] /\ ~t.isOnline /\ t.conn = c]_vars

\* C20: of two sends the relay received in order, both stored for the same
\* receiver, the earlier one is emitted first by the drain that emits both.
C20_SendOrderPreserved ==
  \A i, j \in 1..Len(lastDrain.ids) :
    (/\ lastDrain.ids[i] \in SendIds
     /\ lastDrain.ids[j] \in SendIds
     /\ lastDrain.ids[i] < lastDrain.ids[j])
      => i < j

\* C21: user_typing is emitted only by a typing_start or typing_stop whose
\* friendship lookup said yes, to the room of the receiver it names; a typing
\* or friend-request event changes no mailbox row, no pending storage call
\* and no other persisted state, so one emitted to an empty room is lost.
C21_TypingFriendsOnlyNothingStored ==
  /\ [](\A k \in SignalIds :
          signals[k].event = "user_typing"
            => /\ signals[k].kind \in {"typing_start", "typing_stop"}
               /\ signals[k].areFriends = "yes"
               /\ signals[k].target \in getUserFriends(signals[k].senderId)
               /\ signals[k].to = signals[k].target)
  /\ [](\A k \in SignalIds :
          (signals[k].kind \in {"typing_start", "typing_stop"} /\ signals[k].areFriends = "no")
            => (signals[k].event = "none" /\ signals[k].reached = {}))
  /\ [][\A k \in SignalIds :
          (signals'[k] # signals[k]
             /\ signals'[k].kind \in {"typing_start", "typing_stop", "friend_request_sent"})
            => UNCHANGED <<mailVars, sends, presenceVars, sessionVars, connVars>>]_vars

\* a typing event between friends was emitted to a room with no socket in it
C21_Witness ==
  \E k \in SignalIds :
    /\ signals[k].event = "user_typing"
    /\ signals[k].pc = "done"
    /\ signals[k].reached = {}
    /\ mailbox = {}
    /\ pendingDeletes = {}

\* C22: a socket whose getOfflineMessages call has settled, by a result or by
\* a throw, gets its listeners attached and stays in its user's room; a
\* presence write or a friend-list fetch that completes, failing or not,
\* changes nothing of any socket; no open socket is ever out of its room.
C22_FailuresDoNotBlock ==
  /\ [][\A c \in Conns :
          (connPc[c] = "fetched" /\ connPc'[c] # "fetched")
            => /\ connPc'[c] = "attached"
               /\ c \in connected => c \in rooms'[socketUser[c]]]_vars
  /\ [][((\E w \in statusWrites : w \notin statusWrites')
           \/ (\E t \in notifyPending : t \notin notifyPending'))
          => UNCHANGED connVars]_vars
  /\ [](\A c \in Conns :
          /\ connPc[c] # "failed"
          /\ c \in connected => c \in rooms[socketUser[c]])

\* user 2's only socket has its listeners attached and is in its room although
\* its mailbox fetch threw (its rows are all still there, none was emitted),
\* its online write failed and its friends were never notified
C22_Witness ==
  \E c \in connected :
    /\ socketUser[c] = 2
    /\ \A d \in Conns \ {c} : socketUser[d] # 2
    /\ connPc[c] = "attached"
    /\ c \in rooms[2]
    /\ lastDrain = [conn |-> c, ids |-> <<>>]
    /\ mailbox = OldRows
    /\ \A w \in statusWrites : w.conn # c
    /\ ~is_online[2]
    /\ \A t \in notifyPending : t.conn # c
    /\ \A u \in statusUpdates : u.friendId # 2

\* C23: no handler invocation ends in an uncaught exception or a rejected
\* promise nobody handles.
C23_NoUnhandledRejection ==
  \A k \in SignalIds : signals[k].pc # "unhandledRejection"

\* C24: a send whose socket has closed goes on as any other: after the
\* friendship lookup said yes it is emitted to the sockets in the receiver's
\* room, and stored when that room is empty; closing the socket changes
\* nothing of its sends in flight.
C24_SenderDisconnectDoesNotAbort ==
  /\ [][\A m \in SendIds :
          (/\ sends[m].pc = "awaitFriends"
           /\ sends[m].conn \notin connected
           /\ sends'[m].areFriends = "yes")
            => /\ sends'[m].emitted
               /\ sends'[m].liveTo = Room(sends[m].receiverId)
               /\ sends'[m].pc = IF Room(sends[m].receiverId) = {} THEN "storing" ELSE "done"]_vars
  /\ [][\A m \in SendIds :
          (/\ sends[m].pc = "storing"
           /\ sends[m].conn \notin connected
           /\ sends'[m].pc = "stored")
            => \E r \in mailbox' \ mailbox : r.id = m /\ r.message_uuid = sends[m].messageUuid]_vars
  /\ [][\A c \in Conns : \A m \in SendIds :
          (/\ c \in connected
           /\ c \notin connected'
           /\ sends[m].conn = c
           /\ sends[m].receiverId # socketUser[c])
            => sends'[m] = sends[m]]_vars

\* the row of a send was inserted after the sending socket had closed
C24_Witness ==
  \E m \in SendIds :
    /\ sends[m].pc = "stored"
    /\ sends[m].conn \notin connected
    /\ \E r \in mailbox : r.id = m

\* C25 as claimed: the emit and the reachability check of a send are separate
\* steps: the step that emits leaves the send before its check, where a
\* disconnect of the receiver can still take effect, and decides neither to
\* store it nor to finish it.
C25_Original ==
  [][\A m \in SendIds :
       (sends[m].pc = "awaitFriends" /\ sends'[m].emitted)
         => sends'[m].pc \notin {"storing", "done"}]_vars

\* C25, amended: the emit and the reachability check of a send are one step:
\* no socket opens or closes in it, the emit reaches exactly the sockets the
\* check counts, and the send is handed to storeOfflineMessage exactly when
\* the emit reached nobody.
C25_EmitAndCheckAtomic ==
  /\ [][\A m \in SendIds :
          (sends[m].pc = "awaitFriends" /\ sends'[m].emitted)
            => /\ rooms' = rooms
               /\ connected' = connected
               /\ sends'[m].liveTo = Room(sends[m].receiverId)
               /\ (sends'[m].pc = "storing") = (sends'[m].liveTo = {})
               /\ (sends'[m].pc = "done") = (sends'[m].liveTo # {})]_vars
  /\ [](\A m \in SendIds :
          sends[m].liveTo # {} => sends[m].pc \notin {"storing", "stored", "storeFailed"})

\* a send reached a socket of the receiver, which closed right afterwards:
\* nothing was stored
C25_Witness ==
  \E m \in SendIds :
    /\ sends[m].pc = "done"
    /\ sends[m].liveTo # {}
    /\ sends[m].stored = 0
    /\ Room(sends[m].receiverId) = {}
    /\ mailbox = {}

C27_FriendRequestRelayed ==
  \A k \in SignalIds :
    (signals[k].kind = "friend_request_sent" /\ signals[k].pc # "dropped")
      => /\ signals[k].pc = "done"
         /\ signals[k].areFriends = "unknown"
         /\ IF signals[k].target # NoValue /\ signals[k].hasId
              THEN /\ signals[k].event = "friend_request_received"
                   /\ signals[k].emits = 1
                   /\ signals[k].to = signals[k].target
              ELSE /\ signals[k].event = "none"
                   /\ signals[k].emits = 0
                   /\ signals[k].reached = {}

\* a friend request notice from user 1 reached a socket of user 3, who is not
\* a friend of user 1
C27_Witness ==
  \E k \in SignalIds :
    /\ signals[k].event = "friend_request_received"
    /\ socketUser[signals[k].conn] = 1
    /\ signals[k].target = 3
    /\ signals[k].reached # {}

\* C28: an update_message_status event that reaches its listener with
\* messageUuid, status and senderId emits message_status_update once, to the
\* room of that senderId and so only to sockets of that user; with a field
\* missing, or no payload, it emits nothing.
C28_StatusForwardedToSender ==
  \A k \in SignalIds :
    (signals[k].kind = "update_message_status" /\ signals[k].pc # "dropped")
      => IF signals[k].hasId /\ signals[k].hasStatus /\ signals[k].target # NoValue
           THEN /\ signals[k].pc = "done"
                /\ signals[k].event = "message_status_update"
                /\ signals[k].emits = 1
                /\ signals[k].to = signals[k].target
                /\ \A c \in signals[k].reached : socketUser[c] = signals[k].target
           ELSE /\ signals[k].event = "none"
                /\ signals[k].emits = 0
                /\ signals[k].reached = {}

\* a status update from one user reached a socket of another, the senderId it
\* names
C28_Witness ==
  \E k \in SignalIds :
    /\ signals[k].event = "message_status_update"
    /\ signals[k].target # socketUser[signals[k].conn]
    /\ signals[k].reached # {}

\* C29: the userId of user_typing, the senderId of friend_request_received
\* and of new_message (emitted or stored) and the updatedBy of
\* message_status_update are the userId of the socket the event came in on,
\* whatever identity the payload names.
C29_IdentityFromConnection ==
  /\ \A k \in SignalIds :
       signals[k].event # "none" => signals[k].identity = socketUser[signals[k].conn]
  /\ \A m \in SendIds :
       sends[m].emitted => sends[m].senderId = socketUser[sends[m].conn]
  /\ \A r \in mailbox :
       r.id \in SendIds => r.sender_id = socketUser[sends[r.id].conn]

\* a signal and a send whose payloads name user 3 as their originator were
\* both relayed, from sockets of other users
C29_Witness ==
  /\ \E k \in SignalIds :
       /\ signals[k].event # "none"
       /\ signals[k].claimed = 3
       /\ socketUser[signals[k].conn] # 3
       /\ signals[k].reached # {}
  /\ \E m \in SendIds :
       /\ sends[m].emitted
       /\ sends[m].claimed = 3
       /\ socketUser[sends[m].conn] # 3

\* C30: the step that emits message_sent for a send is either the step that
\* emitted its payload to a non-empty room, or a step taken after its insert
\* had completed successfully.
C30_SentOnlyAfterHandOff ==
  [][\A m \in SendIds :
       (sends[m].ack # "sent" /\ sends'[m].ack = "sent")
         => \/ /\ sends[m].pc = "awaitFriends"
               /\ Room(sends[m].receiverId) # {}
               /\ sends'[m].liveTo = Room(sends[m].receiverId)
            \/ /\ sends[m].pc = "stored"
               /\ sends[m].stored = 1
               /\ sends[m].liveTo = {}]_vars

\* message_sent was emitted for a stored send whose row a drain has meanwhile
\* emitted to the receiver and deleted
C30_Witness ==
  \E m \in SendIds :
    /\ sends[m].ack = "sent"
    /\ sends[m].stored = 1
    /\ drainReached[m] # {}
    /\ \A r \in mailbox : r.id # m

\* C31: a drain never emits to a socket a row of a sender of whom that socket
\* has already received, live, a message sent after the row was stored.
C31_SenderOrderAcrossPaths ==
  [][\A c \in Conns :
       (connPc[c] = "fetched" /\ connPc'[c] # "fetched" /\ c \in Room(socketUser[c]))
         => \A i \in 1..Len(offlineMessages[c].rows) :
              LET row == offlineMessages[c].rows[i] IN
                ~ \E m \in SendIds :
                    /\ sends[m].senderId = row.sender_id
                    /\ sends[m].receiverId = row.receiver_id
                    /\ c \in sends[m].liveTo
                    /\ (row.id \in SendIds => row.id < m)]_vars

\* C32: of a user who has had one socket, no friend_status_update with
\* isOnline=true is emitted to a friend whose socket was open before the
\* user's and still is, once one with isOnline=false has been emitted.
C32_PresenceInOrder ==
  [][\A t \in notifyPending \ notifyPending' :
       (/\ t.isOnline
        /\ \A d \in Conns \ {t.conn} : socketUser[d] # t.userId)
         => ~ \E new \in statusUpdates' \ statusUpdates : \E old \in statusUpdates :
                /\ new.isOnline /\ new.friendId = t.userId
                /\ ~old.isOnline /\ old.friendId = t.userId /\ old.to = new.to
                /\ \E d \in connected :
                     d < t.conn /\ socketUser[d] = new.to /\ connPc[d] = "attached"]_vars

\* C33: once no connection handler, presence write or notification is
\* pending, is_online of every user tells whether the user's room is
\* non-empty.
C33_OnlineFlagMatchesRoom ==
  (/\ statusWrites = {}
   /\ notifyPending = {}
   /\ \A c \in Conns : connPc[c] \in {"closed", "attached"})
    => \A u \in Users : is_online[u] = (Room(u) # {})

\* C34: areUsersFriends yields false whenever its query fails; a send between
\* two friends whose lookup yielded false has emitted nothing to the receiver,
\* has stored no row and has been answered with message_error, and a typing
\* event between two friends whose lookup yielded false has emitted nothing.
C34_FailsClosed ==
  /\ \A u1, u2 \in Users : ~areUsersFriends(u1, u2, TRUE)
  /\ \A m \in SendIds :
       (sends[m].areFriends = "no" /\ sends[m].receiverId \in getUserFriends(sends[m].senderId))
         => /\ ~sends[m].emitted
            /\ sends[m].liveTo = {}
            /\ sends[m].stored = 0
            /\ \A r \in mailbox : r.id # m
            /\ sends[m].pc = "done"
            /\ sends[m].ack = "error"
            /\ sends[m].ackUuid = sends[m].messageUuid
  /\ \A k \in SignalIds :
       (signals[k].areFriends = "no" /\ signals[k].target \in getUserFriends(signals[k].senderId))
         => /\ signals[k].pc = "done"
            /\ signals[k].event = "none"
            /\ signals[k].emits = 0
            /\ signals[k].reached = {}

\* the friendship query failed for a send and for a typing event between
\* two friends while the receiver had a socket in its room: the send was
\* answered with message_error and neither reached that socket
C34_Witness ==
  /\ \E m \in SendIds :
       /\ sends[m].areFriends = "no"
       /\ sends[m].receiverId \in getUserFriends(sends[m].senderId)
       /\ sends[m].ack = "error"
       /\ Room(sends[m].receiverId) # {}
  /\ \E k \in SignalIds :
       /\ signals[k].areFriends = "no"
       /\ signals[k].target \in getUserFriends(signals[k].senderId)
       /\ signals[k].pc = "done"
       /\ Room(signals[k].target) # {}

\* C35: a logout changes nothing but the session table; every open socket,
\* whether or not its session is still active, is in its user's room; an
\* event emitted to a room reaches every socket in it; a friend_request_sent
\* arriving on an attached socket whose session has been logged out is handled
\* as any other.
C35_LogoutLeavesSockets ==
  /\ [][(lastLogout' # lastLogout \/ userSessions' # userSessions)
          => UNCHANGED <<issued, lastRejected, connVars, mailVars, sends, signals,
                         presenceVars>>]_vars
  /\ [](\A c \in connected : c \in Room(socketUser[c]))
  /\ [][\A k \in SignalIds :
          signals'[k] # signals[k] /\ signals'[k].event # "none"
            => signals'[k].reached = Room(signals'[k].target)]_vars
  /\ [](\A k \in SignalIds :
          (/\ ~signals[k].sessionActive
           /\ signals[k].kind = "friend_request_sent"
           /\ signals[k].pc # "dropped")
            => /\ signals[k].pc = "done"
               /\ (signals[k].target # NoValue /\ signals[k].hasId)
                    => signals[k].event = "friend_request_received")

\* a socket whose token had been logged out sent a friend-request notice that
\* was relayed to a socket of the receiver, itself opened with a token that
\* has been logged out, and both sockets are still open
C35_Witness ==
  \E k \in SignalIds :
    /\ ~signals[k].sessionActive
    /\ signals[k].event = "friend_request_received"
    /\ signals[k].conn \in connected
    /\ \E d \in signals[k].reached \cap connected :
         /\ d # signals[k].conn
         /\ socketSession[d] \in LoggedOut
         /\ d \in Room(socketUser[d])

\* C36: what areUsersFriends(u1, u2) returned tells whether the friendships
\* table holds a row pairing u1 and u2 in either column order, and equals
\* what it returns for (u2, u1).
C36_FriendsIffRow ==
  lastCall.op = "areUsersFriends"
    => /\ lastCall.result = (\/ <<lastCall.userId, lastCall.other>> \in friendships
                             \/ <<lastCall.other, lastCall.userId>> \in friendships)
       /\ lastCall.result = areUsersFriends(lastCall.other, lastCall.userId, FilterRaises)

\* C37: a request that is pending stays pending in every step but a
\* successful accept or reject by its receiver or cancel by its sender, which
\* gives it the status of that call; an accept, reject or cancel succeeds
\* only on a pending request and for that party; one that fails changes no
\* row of friend_requests or friendships.
C37_PendingLeftOnlyByItsParty ==
  /\ [][\A r \in friend_requests :
          r.status = "pending"
            => \/ r \in friend_requests'
               \/ /\ lastCall'.ok
                  /\ lastCall'.other = r.id
                  /\ \/ /\ lastCall'.op = "acceptFriendRequest"
                        /\ lastCall'.userId = r.receiver_id
                        /\ [r EXCEPT !.status = "accepted"] \in friend_requests'
                     \/ /\ lastCall'.op = "rejectFriendRequest"
                        /\ lastCall'.userId = r.receiver_id
                        /\ [r EXCEPT !.status = "rejected"] \in friend_requests'
                     \/ /\ lastCall'.op = "cancelFriendRequest"
                        /\ lastCall'.userId = r.sender_id
                        /\ [r EXCEPT !.status = "cancelled"] \in friend_requests']_vars
  /\ [][(/\ lastCall' # lastCall
         /\ lastCall'.op \in {"acceptFriendRequest", "rejectFriendRequest", "cancelFriendRequest"})
          => IF lastCall'.ok
               THEN \E r \in friend_requests :
                      /\ r.id = lastCall'.other
                      /\ r.status = "pending"
                      /\ lastCall'.userId = IF lastCall'.op = "cancelFriendRequest"
                                              THEN r.sender_id ELSE r.receiver_id
               ELSE UNCHANGED <<friend_requests, friendships>>]_vars

\* an accept by the sender of a pending request has failed and the request
\* is still pending, next to a request that its receiver has rejected
C37_Witness ==
  /\ lastCall.op = "acceptFriendRequest"
  /\ ~lastCall.ok
  /\ \E r \in friend_requests :
       r.id = lastCall.other /\ r.status = "pending" /\ r.sender_id = lastCall.userId
  /\ \E r \in friend_requests : r.status = "rejected"

\* C38: when sendFriendRequest(S, R) has returned, friend_requests holds a
\* pending request with sender S and receiver R.
C38_SentRequestIsPending ==
  (lastCall.op = "sendFriendRequest" /\ lastCall.ok)
    => \E r \in friend_requests :
         /\ r.sender_id = lastCall.userId
         /\ r.receiver_id = lastCall.other
         /\ r.status = "pending"

====
